---- MODULE Spec2Model ----
(***************************************************************************)
(* Model of examples/pet.rs: the main loop of the pet dashboard (draw,     *)
(* receive one event, handle it), the selection cursor held in             *)
(* pet_list_state, the active menu item and the pet collection persisted   *)
(* in the JSON file at DB_PATH.                                            *)
(*                                                                         *)
(* usize arithmetic is modelled with a scaled-down word of UsizeBits bits. *)
(* A subtraction that underflows panics when the build has overflow checks *)
(* (debug profile) and wraps when it has none (release profile); the       *)
(* profile is chosen once, in Init.                                        *)
(***************************************************************************)
EXTENDS Integers, Sequences, FiniteSets, TLC

VARIABLES
  active_menu_item,  \* MenuItem: "Home" or "Pets"
  selected,          \* pet_list_state.selected(): None or Some(index)
  db,                \* the Vec<Pet> stored in the file at DB_PATH
  pc,                \* position of main: "draw", "recv", "done", "panicked"
  event,             \* the event last returned by rx.recv()
  overflow_checks,   \* TRUE: debug profile, FALSE: release profile
  script,            \* keys that remain to be typed (scripted runs only)
  origin,            \* index selected when a scripted run started
  terminal,          \* raw_mode, cursor_hidden, cleared: the terminal's state
  chan,              \* events sent on tx and not yet received on rx
  producer,          \* position of the spawned thread: "poll", "read", "tick", "panicked"
  ready,             \* terminal events not yet read, in order of arrival, with
                     \* the mark "Tick" where the tick deadline elapsed
  last_tick_elapsed, \* last_tick.elapsed(), in milliseconds, capped at tick_rate
  timeout,           \* what is left of the timeout given to event::poll
  tracked            \* position in chan of one Input event that is followed (0: none)

mux_vars == <<chan, producer, ready, last_tick_elapsed, timeout, tracked>>

vars == <<active_menu_item, selected, db, pc, event, overflow_checks, script, origin,
          terminal, chan, producer, ready, last_tick_elapsed, timeout, tracked>>

\* ---- bounds --------------------------------------------------------------
MaxPets == 3
UsizeBits == 3
MaxQueue == 2
MaxPending == 1
Quantum == 100

\* ---- program constants ---------------------------------------------------
IdEnd == 999999
AgeStart == 1
AgeEnd == 15
NameLen == 10
TickRate == 200

\* ---- usize ---------------------------------------------------------------
UsizeModulus == 2 ^ UsizeBits
UsizeMax == UsizeModulus - 1

\* a - b underflows
SubOverflows(a, b) == a < b
\* a - b without overflow checks
WrappingSub(a, b) == (a - b + UsizeModulus) % UsizeModulus

\* ---- Option<usize> -------------------------------------------------------
None == <<>>
Some(v) == <<v>>
IsSome(o) == o # None
Unwrap(o) == o[1]

\* ---- Pet -----------------------------------------------------------------
MenuItem == {"Home", "Pets"}

\* rng.gen_range(0..999999), sampled at both ends of the range
GenId == {0, IdEnd - 1}
\* match rng.gen_range(0..=1) { 0 => "cats", _ => "dogs" }
GenCategory == {"cats", "dogs"}
\* mutant of GenAge: the range taken as inclusive, 1..=15
GenAgeInclusive == {AgeStart, AgeEnd}

\* rng.gen_range(1..15), sampled at both ends of the range
GenAge == {AgeStart, AgeEnd - 1}
\* sample_iter(&Alphanumeric).take(10), over a one-letter sample alphabet
Alphanumeric == {"a"}
GenName == [1..NameLen -> Alphanumeric]
\* Utc::now(), abstracted to one instant
Now == 0

Pet == [id : GenId, name : GenName, category : GenCategory, age : GenAge,
        created_at : {Now}]

RECURSIVE SeqsUpTo(_, _)
SeqsUpTo(S, n) ==
  IF n = 0 THEN {<<>>}
  ELSE LET shorter == SeqsUpTo(S, n - 1)
       IN  shorter \cup {Append(s, x) : s \in {t \in shorter : Len(t) = n - 1}, x \in S}

\* mutant of VecRemove: Vec::swap_remove, the last element takes the place
VecSwapRemove(v, index) ==
  IF index = Len(v) - 1
    THEN SubSeq(v, 1, index)
    ELSE [k \in 1..(Len(v) - 1) |-> IF k = index + 1 THEN v[Len(v)] ELSE v[k]]

\* Vec::remove(index) for index < len: removes and shifts the tail left
VecRemove(v, index) == SubSeq(v, 1, index) \o SubSeq(v, index + 2, Len(v))

\* ---- events --------------------------------------------------------------
Keys == {"q", "h", "p", "a", "d", "Down", "Up", "other"}
Events == Keys \cup {"Tick"}

\* ---- the main loop -------------------------------------------------------
TypeOK ==
  /\ active_menu_item \in MenuItem
  /\ selected \in {None} \cup {Some(v) : v \in 0..UsizeMax}
  /\ db \in Seq(Pet) /\ Len(db) <= MaxPets
  /\ pc \in {"draw", "recv", "done", "panicked", "io_err", "recv_err"}
  /\ event \in Events \cup {"none"}
  /\ overflow_checks \in BOOLEAN
  /\ script \in Seq(Keys)
  /\ origin \in 0..UsizeMax
  /\ terminal \in [raw_mode : BOOLEAN, cursor_hidden : BOOLEAN, cleared : BOOLEAN]
  /\ chan \in Seq(Events) /\ Len(chan) <= MaxQueue
  /\ producer \in {"poll", "read", "tick", "panicked"}
  /\ ready \in Seq(Keys \cup {"Resize", "Tick"})
  /\ last_tick_elapsed \in 0..TickRate
  /\ timeout \in 0..TickRate
  /\ tracked \in 0..MaxQueue

\* enable_raw_mode, terminal.clear, terminal.hide_cursor
TerminalSetUp == [raw_mode |-> TRUE, cursor_hidden |-> TRUE, cleared |-> TRUE]

\* clear, disable_raw_mode and show_cursor have all been done
TornDown == terminal = [raw_mode |-> FALSE, cursor_hidden |-> FALSE, cleared |-> TRUE]

\* Duration::checked_sub(..).unwrap_or_else(|| Duration::from_secs(0))
SaturatingSub(a, b) == IF a >= b THEN a - b ELSE 0

\* thread::spawn: last_tick = Instant::now(), first timeout, empty channel
InitMuxVars ==
  /\ chan = <<>>
  /\ producer = "poll"
  /\ ready = <<>>
  /\ last_tick_elapsed = 0
  /\ timeout = SaturatingSub(TickRate, 0)
  /\ tracked = 0

\* main before the loop: Home, select(Some(0)), any persisted collection
Init ==
  /\ active_menu_item = "Home"
  /\ selected = Some(0)
  /\ db \in SeqsUpTo(Pet, MaxPets)
  /\ pc = "draw"
  /\ event = "none"
  /\ overflow_checks \in BOOLEAN
  /\ script = <<>>
  /\ origin = 0
  /\ terminal = TerminalSetUp
  /\ InitMuxVars

\* a panic unwinds main: nothing else is written
Panic == pc' = "panicked"

\* render_pets: expect("there is always a selected pet"), get(..).expect("exists")
RenderPetsPanics == ~IsSome(selected) \/ Unwrap(selected) >= Len(db)

\* terminal.draw(|f| ui(f, active_menu_item, &mut pet_list_state))
Draw ==
  /\ pc = "draw"
  /\ IF active_menu_item = "Pets" /\ RenderPetsPanics
       THEN Panic /\ UNCHANGED terminal
       ELSE pc' = "recv" /\ terminal' = [terminal EXCEPT !.cleared = FALSE]
  /\ UNCHANGED <<active_menu_item, selected, db, event, overflow_checks, script, origin>>
  /\ UNCHANGED mux_vars

\* mutant of OnQuit: the loop is left without show_cursor
OnQuitKeepsCursorHidden ==
  /\ \/ pc' = "io_err" /\ UNCHANGED terminal
     \/ /\ pc' = "io_err"
        /\ terminal' = [terminal EXCEPT !.cleared = TRUE]
     \/ /\ pc' = "done"
        /\ terminal' = [terminal EXCEPT !.cleared = TRUE, !.raw_mode = FALSE]
  /\ UNCHANGED <<active_menu_item, selected, db>>

\* KeyCode::Char('q'): terminal.clear()?; disable_raw_mode()?; show_cursor()?; break
\* (each step may return an error, which ? returns from main)
OnQuit ==
  /\ \/ pc' = "io_err" /\ UNCHANGED terminal
     \/ /\ pc' = "io_err"
        /\ terminal' = [terminal EXCEPT !.cleared = TRUE]
     \/ /\ pc' = "io_err"
        /\ terminal' = [terminal EXCEPT !.cleared = TRUE, !.raw_mode = FALSE]
     \/ /\ pc' = "done"
        /\ terminal' = [terminal EXCEPT !.cleared = TRUE, !.raw_mode = FALSE,
                                        !.cursor_hidden = FALSE]
  /\ UNCHANGED <<active_menu_item, selected, db>>

\* KeyCode::Char('h')
OnHome ==
  /\ active_menu_item' = "Home"
  /\ pc' = "draw"
  /\ UNCHANGED <<selected, db>>

\* mutant of OnPets: entering the list selects the first pet
OnPetsSelectsFirst ==
  /\ active_menu_item' = "Pets"
  /\ selected' = Some(0)
  /\ pc' = "draw"
  /\ UNCHANGED db

\* KeyCode::Char('p')
OnPets ==
  /\ active_menu_item' = "Pets"
  /\ pc' = "draw"
  /\ UNCHANGED <<selected, db>>

\* add_random_pet_to_db: parsed.push(random_pet); fs::write
add_random_pet_to_db ==
  \E random_pet \in Pet : db' = Append(db, random_pet)

\* mutant of OnAdd: the new pet becomes the selected one
OnAddSelectsNew ==
  /\ Len(db) < MaxPets
  /\ add_random_pet_to_db
  /\ selected' = Some(Len(db))
  /\ pc' = "draw"
  /\ UNCHANGED active_menu_item

\* KeyCode::Char('a')
OnAdd ==
  /\ Len(db) < MaxPets
  /\ add_random_pet_to_db
  /\ pc' = "draw"
  /\ UNCHANGED <<active_menu_item, selected>>

\* mutant of remove_pet_at_index: the selection is cleared when the last pet goes
remove_pet_at_index_ClearsSelection ==
  IF IsSome(selected)
    THEN LET index == Unwrap(selected)
         IN  IF index >= Len(db)
               THEN Panic /\ UNCHANGED <<selected, db>>
               ELSE /\ db' = VecRemove(db, index)
                    /\ selected' = IF Len(db) = 1 THEN None
                                   ELSE Some(WrappingSub(index, 1))
                    /\ pc' = "draw"
    ELSE pc' = "draw" /\ UNCHANGED <<selected, db>>

\* remove_pet_at_index: parsed.remove(selected); fs::write; select(Some(selected - 1))
remove_pet_at_index ==
  IF IsSome(selected)
    THEN LET index == Unwrap(selected)
         IN  IF index >= Len(db)
               THEN Panic /\ UNCHANGED <<selected, db>>
               ELSE /\ db' = VecRemove(db, index)
                    /\ IF SubOverflows(index, 1) /\ overflow_checks
                         THEN Panic /\ UNCHANGED selected
                         ELSE /\ selected' = Some(WrappingSub(index, 1))
                              /\ pc' = "draw"
    ELSE pc' = "draw" /\ UNCHANGED <<selected, db>>

\* mutant of OnDelete: the key is ignored unless the Pets screen is active
OnDeletePetsOnly ==
  /\ IF active_menu_item = "Pets"
       THEN remove_pet_at_index
       ELSE pc' = "draw" /\ UNCHANGED <<selected, db>>
  /\ UNCHANGED active_menu_item

\* KeyCode::Char('d')
OnDelete ==
  /\ remove_pet_at_index
  /\ UNCHANGED active_menu_item

\* mutant of OnDown: the wrap test is selected > amount_pets - 1
OnDownStrict ==
  /\ IF IsSome(selected)
       THEN LET index == Unwrap(selected)
                amount_pets == Len(db)
            IN  IF SubOverflows(amount_pets, 1) /\ overflow_checks
                  THEN Panic /\ UNCHANGED selected
                  ELSE /\ selected' = IF index > WrappingSub(amount_pets, 1)
                                        THEN Some(0)
                                        ELSE Some((index + 1) % UsizeModulus)
                       /\ pc' = "draw"
       ELSE pc' = "draw" /\ UNCHANGED selected
  /\ UNCHANGED <<active_menu_item, db>>

\* mutant of OnDown: the key is ignored unless the Pets screen is active
OnDownPetsOnly ==
  /\ IF IsSome(selected) /\ active_menu_item = "Pets"
       THEN LET index == Unwrap(selected)
                amount_pets == Len(db)
            IN  IF SubOverflows(amount_pets, 1) /\ overflow_checks
                  THEN Panic /\ UNCHANGED selected
                  ELSE /\ selected' = IF index >= WrappingSub(amount_pets, 1)
                                        THEN Some(0)
                                        ELSE Some(index + 1)
                       /\ pc' = "draw"
       ELSE pc' = "draw" /\ UNCHANGED selected
  /\ UNCHANGED <<active_menu_item, db>>

\* KeyCode::Down
OnDown ==
  /\ IF IsSome(selected)
       THEN LET index == Unwrap(selected)
                amount_pets == Len(db)
            IN  IF SubOverflows(amount_pets, 1) /\ overflow_checks
                  THEN Panic /\ UNCHANGED selected
                  ELSE /\ selected' = IF index >= WrappingSub(amount_pets, 1)
                                        THEN Some(0)
                                        ELSE Some(index + 1)
                       /\ pc' = "draw"
       ELSE pc' = "draw" /\ UNCHANGED selected
  /\ UNCHANGED <<active_menu_item, db>>

\* mutant of OnUp: at index 0 the cursor stays at 0 instead of wrapping
OnUpClamps ==
  /\ IF IsSome(selected)
       THEN LET index == Unwrap(selected)
            IN  /\ selected' = IF index > 0 THEN Some(index - 1) ELSE Some(0)
                /\ pc' = "draw"
       ELSE pc' = "draw" /\ UNCHANGED selected
  /\ UNCHANGED <<active_menu_item, db>>

\* KeyCode::Up
OnUp ==
  /\ IF IsSome(selected)
       THEN LET index == Unwrap(selected)
                amount_pets == Len(db)
            IN  IF index > 0
                  THEN selected' = Some(index - 1) /\ pc' = "draw"
                  ELSE IF SubOverflows(amount_pets, 1) /\ overflow_checks
                         THEN Panic /\ UNCHANGED selected
                         ELSE /\ selected' = Some(WrappingSub(amount_pets, 1))
                              /\ pc' = "draw"
       ELSE pc' = "draw" /\ UNCHANGED selected
  /\ UNCHANGED <<active_menu_item, db>>

\* _ => ()
OnOther ==
  /\ pc' = "draw"
  /\ UNCHANGED <<active_menu_item, selected, db>>

\* mutant of OnTick: the redraw resets the selection to the first pet
OnTickSelectsFirst ==
  /\ pc' = "draw"
  /\ selected' = Some(0)
  /\ UNCHANGED <<active_menu_item, db>>

\* Event::Tick => ()
OnTick ==
  /\ pc' = "draw"
  /\ UNCHANGED <<active_menu_item, selected, db>>

\* match event.code { ... }
OnInput(key) ==
  CASE key = "q" -> OnQuit
    [] key = "h" -> OnHome /\ UNCHANGED terminal
    [] key = "p" -> OnPets /\ UNCHANGED terminal
    [] key = "a" -> OnAdd /\ UNCHANGED terminal
    [] key = "d" -> OnDelete /\ UNCHANGED terminal
    [] key = "Down" -> OnDown /\ UNCHANGED terminal
    [] key = "Up" -> OnUp /\ UNCHANGED terminal
    [] OTHER -> OnOther /\ UNCHANGED terminal

\* rx.recv() returns Event::Input(key) while no script is being typed
Input(key) ==
  /\ pc = "recv"
  /\ script = <<>>
  /\ event' = key
  /\ OnInput(key)
  /\ UNCHANGED <<overflow_checks, script, origin>>
  /\ UNCHANGED mux_vars

KeyQ == Input("q")
KeyH == Input("h")
KeyP == Input("p")
KeyA == Input("a")
KeyD == Input("d")
KeyDown == Input("Down")
KeyUp == Input("Up")
KeyOther == Input("other")

\* rx.recv() returns Event::Tick
Tick ==
  /\ pc = "recv"
  /\ event' = "Tick"
  /\ OnTick
  /\ UNCHANGED <<overflow_checks, script, origin, terminal>>
  /\ UNCHANGED mux_vars

Next ==
  \/ Draw
  \/ Tick
  \/ KeyQ
  \/ KeyH
  \/ KeyP
  \/ KeyA
  \/ KeyD
  \/ KeyDown
  \/ KeyUp
  \/ KeyOther

Spec == Init /\ [][Next]_vars

\* ---- scripted runs: the keys of script are typed one after the other -----
\* rx.recv() returns Event::Input of the next key of the script
ScriptStep ==
  /\ pc = "recv"
  /\ script # <<>>
  /\ event' = Head(script)
  /\ OnInput(Head(script))
  /\ script' = Tail(script)
  /\ UNCHANGED <<overflow_checks, origin>>
  /\ UNCHANGED mux_vars

NextScript ==
  \/ Draw
  \/ Tick
  \/ ScriptStep

Repeat(key, n) == [i \in 1..n |-> key]

\* the scenario of the testable properties: empty store, cursor 0
Scenario == <<"a", "a", "a", "Down", "Down", "d", "Down">>

InitScenario ==
  /\ active_menu_item = "Home"
  /\ selected = Some(0)
  /\ db = <<>>
  /\ pc = "draw"
  /\ event = "none"
  /\ overflow_checks \in BOOLEAN
  /\ script = Scenario
  /\ origin = 0
  /\ terminal = TerminalSetUp
  /\ InitMuxVars

SpecScenario == InitScenario /\ [][NextScript]_vars

\* a non-empty collection of length n, a valid cursor, n times Down or n times Up
InitWrap ==
  /\ active_menu_item \in MenuItem
  /\ db \in SeqsUpTo(Pet, MaxPets) \ {<<>>}
  /\ origin \in 0..(Len(db) - 1)
  /\ selected = Some(origin)
  /\ pc = "draw"
  /\ event = "none"
  /\ overflow_checks \in BOOLEAN
  /\ script \in {Repeat("Down", Len(db)), Repeat("Up", Len(db))}
  /\ terminal \in {TerminalSetUp, [TerminalSetUp EXCEPT !.cleared = FALSE]}
  /\ InitMuxVars

SpecWrap == InitWrap /\ [][NextScript]_vars

\* ---- the event loop thread and the channel --------------------------------
\* the process lives as long as main is in its loop
MainRunning == pc \in {"draw", "recv"}

\* keys typed in the runs that include the producer thread
MuxKeys == {"q", "p"}
\* what event::read can return: CEvent::Key(key) or another CEvent
TerminalEvents == MuxKeys \cup {"Resize"}

\* the terminal events waiting to be read
Pending == SelectSeq(ready, LAMBDA e : e # "Tick")

\* s without its first tick mark (mark = TRUE) or its first terminal event
RECURSIVE RemoveFirst(_, _)
RemoveFirst(s, mark) ==
  IF s = <<>> THEN <<>>
  ELSE IF (Head(s) = "Tick") = mark THEN Tail(s)
  ELSE <<Head(s)>> \o RemoveFirst(Tail(s), mark)

Min(a, b) == IF a <= b THEN a ELSE b

main_vars == <<active_menu_item, selected, db, pc, event, overflow_checks, script, origin,
               terminal>>

\* the user presses a key or the terminal is resized
KeyPress ==
  /\ MainRunning
  /\ Len(Pending) < MaxPending
  /\ \E e \in TerminalEvents : ready' = Append(ready, e)
  /\ UNCHANGED <<chan, producer, last_tick_elapsed, timeout, tracked>>
  /\ UNCHANGED main_vars

\* Quantum milliseconds pass
Advance ==
  /\ MainRunning
  /\ last_tick_elapsed < TickRate
  /\ last_tick_elapsed' = Min(last_tick_elapsed + Quantum, TickRate)
  /\ timeout' = IF producer = "poll" THEN SaturatingSub(timeout, Quantum) ELSE timeout
  /\ ready' = IF last_tick_elapsed' >= TickRate THEN Append(ready, "Tick") ELSE ready
  /\ UNCHANGED <<chan, producer, tracked>>
  /\ UNCHANGED main_vars

\* event::poll(timeout) returns Ok(true): an event is available
PollReady ==
  /\ MainRunning
  /\ producer = "poll"
  /\ Pending # <<>>
  /\ producer' = "read"
  /\ UNCHANGED <<chan, ready, last_tick_elapsed, timeout, tracked>>
  /\ UNCHANGED main_vars

\* event::poll(timeout) returns Ok(false): the timeout has run out
PollTimeout ==
  /\ MainRunning
  /\ producer = "poll"
  /\ Pending = <<>>
  /\ timeout = 0
  /\ producer' = "tick"
  /\ UNCHANGED <<chan, ready, last_tick_elapsed, timeout, tracked>>
  /\ UNCHANGED main_vars

\* event::poll or event::read returns Err: expect("poll works") or
\* expect("can read events") panics, the thread ends and tx is dropped
ProducerPanics ==
  /\ MainRunning
  /\ producer \in {"poll", "read"}
  /\ producer' = "panicked"
  /\ UNCHANGED <<chan, ready, last_tick_elapsed, timeout, tracked>>
  /\ UNCHANGED main_vars

\* mutant of Read: a key read when the tick is due is dropped in favour of the Tick
ReadDropsKeyWhenTickDue ==
  /\ MainRunning
  /\ producer = "read"
  /\ LET e == Head(Pending)
     IN  /\ ready' = RemoveFirst(ready, FALSE)
         /\ IF e \in Keys /\ last_tick_elapsed < TickRate
              THEN /\ Len(chan) < MaxQueue
                   /\ chan' = Append(chan, e)
                   /\ tracked' \in (IF tracked = 0 THEN {0, Len(chan) + 1} ELSE {tracked})
              ELSE UNCHANGED <<chan, tracked>>
  /\ producer' = "tick"
  /\ UNCHANGED <<last_tick_elapsed, timeout>>
  /\ UNCHANGED main_vars

\* mutant of Read: last_tick is taken anew whenever an event was read
ReadRestartsTick ==
  /\ MainRunning
  /\ producer = "read"
  /\ LET e == Head(Pending)
     IN  /\ ready' = RemoveFirst(RemoveFirst(ready, FALSE), TRUE)
         /\ IF e \in Keys
              THEN /\ Len(chan) < MaxQueue
                   /\ chan' = Append(chan, e)
                   /\ tracked' \in (IF tracked = 0 THEN {0, Len(chan) + 1} ELSE {tracked})
              ELSE UNCHANGED <<chan, tracked>>
  /\ producer' = "tick"
  /\ last_tick_elapsed' = 0
  /\ UNCHANGED timeout
  /\ UNCHANGED main_vars

\* if let CEvent::Key(key) = event::read() { tx.send(Event::Input(key)) }
Read ==
  /\ MainRunning
  /\ producer = "read"
  /\ LET e == Head(Pending)
     IN  /\ ready' = RemoveFirst(ready, FALSE)
         /\ IF e \in Keys
              THEN /\ Len(chan) < MaxQueue
                   /\ chan' = Append(chan, e)
                   /\ tracked' \in (IF tracked = 0 THEN {0, Len(chan) + 1} ELSE {tracked})
              ELSE UNCHANGED <<chan, tracked>>
  /\ producer' = "tick"
  /\ UNCHANGED <<last_tick_elapsed, timeout>>
  /\ UNCHANGED main_vars

\* if last_tick.elapsed() >= tick_rate && tx.send(Event::Tick).is_ok()
\*   { last_tick = Instant::now() }; then the timeout of the next iteration
TickCheck ==
  /\ MainRunning
  /\ producer = "tick"
  /\ IF last_tick_elapsed >= TickRate
       THEN /\ Len(chan) < MaxQueue
            /\ chan' = Append(chan, "Tick")
            /\ last_tick_elapsed' = 0
            /\ ready' = RemoveFirst(ready, TRUE)
       ELSE UNCHANGED <<chan, last_tick_elapsed, ready>>
  /\ timeout' = SaturatingSub(TickRate, last_tick_elapsed')
  /\ producer' = "poll"
  /\ UNCHANGED tracked
  /\ UNCHANGED main_vars

\* mutant of MuxRecv: an Input event of the channel is taken before the Ticks
MuxRecvPrefersInput ==
  /\ pc = "recv"
  /\ chan # <<>>
  /\ LET inputs == SelectSeq(chan, LAMBDA e : e # "Tick")
     IN  IF inputs # <<>>
           THEN /\ event' = Head(inputs)
                /\ OnInput(Head(inputs))
                /\ chan' = RemoveFirst(chan, FALSE)
           ELSE /\ event' = "Tick"
                /\ OnTick /\ UNCHANGED terminal
                /\ chan' = Tail(chan)
  /\ tracked' = 0
  /\ UNCHANGED <<overflow_checks, script, origin>>
  /\ UNCHANGED <<producer, ready, last_tick_elapsed, timeout>>

\* rx.recv() returns the oldest event of the channel; it is handled
MuxRecv ==
  /\ pc = "recv"
  /\ chan # <<>>
  /\ event' = Head(chan)
  /\ IF Head(chan) = "Tick"
       THEN OnTick /\ UNCHANGED terminal
       ELSE OnInput(Head(chan))
  /\ chan' = Tail(chan)
  /\ tracked' = IF tracked > 0 THEN tracked - 1 ELSE 0
  /\ UNCHANGED <<overflow_checks, script, origin>>
  /\ UNCHANGED <<producer, ready, last_tick_elapsed, timeout>>

\* rx.recv() returns Err(RecvError): the channel is empty and tx was dropped;
\* ? returns the error from main
RecvDisconnected ==
  /\ pc = "recv"
  /\ chan = <<>>
  /\ producer = "panicked"
  /\ pc' = "recv_err"
  /\ UNCHANGED <<active_menu_item, selected, db, event, overflow_checks, script, origin,
                 terminal>>
  /\ UNCHANGED mux_vars

\* terminal.draw(..) returns Err; ? returns the error from main
DrawFails ==
  /\ pc = "draw"
  /\ pc' = "io_err"
  /\ UNCHANGED <<active_menu_item, selected, db, event, overflow_checks, script, origin,
                 terminal>>
  /\ UNCHANGED mux_vars

SamplePet == CHOOSE pet \in Pet : TRUE

InitMux ==
  /\ active_menu_item = "Home"
  /\ selected = Some(0)
  /\ db \in SeqsUpTo({SamplePet}, 1)
  /\ pc = "draw"
  /\ event = "none"
  /\ overflow_checks = TRUE  \* the keys of MuxKeys execute no usize subtraction
  /\ script = <<>>
  /\ origin = 0
  /\ terminal = TerminalSetUp
  /\ InitMuxVars

NextMux ==
  \/ Draw
  \/ DrawFails
  \/ MuxRecv
  \/ RecvDisconnected
  \/ KeyPress
  \/ Advance
  \/ PollReady
  \/ PollTimeout
  \/ ProducerPanics
  \/ Read
  \/ TickCheck

SpecMux == InitMux /\ [][NextMux]_vars

\* both threads are scheduled and time passes; nothing forces a key-press or
\* a failure
FairSpecMux ==
  /\ SpecMux
  /\ WF_vars(Draw)
  /\ WF_vars(MuxRecv)
  /\ WF_vars(RecvDisconnected)
  /\ WF_vars(Advance)
  /\ WF_vars(PollReady)
  /\ WF_vars(PollTimeout)
  /\ WF_vars(Read)
  /\ WF_vars(TickCheck)

\* ---- properties ----------------------------------------------------------
\* the main loop has just received event e and handles it in this step
Received(e) == pc = "recv" /\ event' = e

Crashed == pc = "panicked"

\* the cursor holds an index of the collection
CursorValid == IsSome(selected) /\ Unwrap(selected) < Len(db)

\* C1: whenever Screen = Pets and the collection has length n >= 1, the
\* cursor is present and 0 <= cursor < n.
C1_CursorValidOnPets ==
  (active_menu_item = "Pets" /\ Len(db) >= 1)
    => (IsSome(selected) /\ 0 <= Unwrap(selected) /\ Unwrap(selected) < Len(db))

\* C2: pressing d when the persisted collection is empty does not crash the
\* program (the main loop goes on to the next event) and leaves the
\* collection empty.
C2_DeleteOnEmptyIsHarmless ==
  [][(Received("d") /\ db = <<>>) => (pc' = "draw" /\ db' = <<>>)]_vars

\* C3: pressing d with a valid cursor c deletes the record at c and sets the
\* cursor to c-1 when c >= 1 and to 0 when c = 0, without crashing.
C3_DeleteSaturates ==
  [][(Received("d") /\ CursorValid)
       => LET c == Unwrap(selected)
          IN  /\ pc' = "draw"
              /\ Len(db') = Len(db) - 1
              /\ selected' = Some(IF c >= 1 THEN c - 1 ELSE 0)]_vars

\* C4: deleting at index i of a collection of length n, 0 <= i < n, leaves a
\* persisted collection of length n-1 where the records formerly at j < i are
\* still at j and the records formerly at j > i are at j-1.
\* (index j of the program is position j+1 of the sequence)
C4_DeleteShrinksAndShifts ==
  [][(Received("d") /\ CursorValid)
       => LET i == Unwrap(selected)
              n == Len(db)
          IN  /\ Len(db') = n - 1
              /\ \A j \in 0..(n - 1) :
                   /\ j < i => db'[j + 1] = db[j + 1]
                   /\ j > i => db'[j] = db[j + 1]]_vars

C4_Witness ==
  /\ event = "d"
  /\ pc = "draw"
  /\ selected = Some(0)
  /\ Len(db) = 2
  /\ db[1] # db[2]

\* C5: one add on a collection of length n leaves a persisted collection of
\* length n+1 whose first n records are the previous ones in order and whose
\* last record has id in [0, 999999), category cats or dogs, age in [1, 15)
\* and a name of 10 characters.
C5_AddAppendsGeneratedPet ==
  [][Received("a")
       => LET n == Len(db)
              pet == db'[n + 1]
          IN  /\ Len(db') = n + 1
              /\ SubSeq(db', 1, n) = db
              /\ 0 <= pet.id /\ pet.id < 999999
              /\ pet.category \in {"cats", "dogs"}
              /\ 1 <= pet.age /\ pet.age < 15
              /\ Len(pet.name) = 10]_vars

C5_Witness ==
  /\ event = "a"
  /\ Len(db) = 3
  /\ db[3].id = 999998
  /\ db[3].age = 14

\* C6: from a non-empty collection of length n and a valid cursor c, n times
\* Down in a row returns the cursor to c, and so does n times Up.
C6_WrapReturns ==
  /\ ~Crashed
  /\ script = <<>> => selected = Some(origin)

C6_Witness ==
  /\ script = <<>>
  /\ event = "Up"
  /\ Len(db) = 3
  /\ origin = 1
  /\ selected = Some(1)

\* C7: processing a Tick leaves Screen, the cursor and the persisted
\* collection unchanged.
C7_TickNeutral ==
  [][Received("Tick") => UNCHANGED <<active_menu_item, selected, db>>]_vars

C7_Witness ==
  /\ event = "Tick"
  /\ active_menu_item = "Pets"
  /\ selected = Some(1)
  /\ Len(db) = 2

\* C8: from an empty store and cursor 0 the keys a, a, a, Down, Down, d, Down
\* run without failure: 3 records after the three a, cursor 2 after the two
\* Down, 2 records and cursor 1 after d, cursor 0 after the last Down.
C8_Scenario ==
  /\ ~Crashed
  /\ Len(script) = 4 => Len(db) = 3
  /\ Len(script) = 2 => selected = Some(2)
  /\ Len(script) = 1 => (Len(db) = 2 /\ selected = Some(1))
  /\ Len(script) = 0 => selected = Some(0)

C8_Witness ==
  /\ script = <<>>
  /\ event = "Down"
  /\ Len(db) = 2
  /\ selected = Some(0)
  /\ pc = "recv"

\* C9 as stated: when Screen = Home, pressing Up or Down leaves the cursor
\* unchanged.
C9_NoNavigationOnHome ==
  [][((Received("Down") \/ Received("Up")) /\ active_menu_item = "Home")
       => selected' = selected]_vars

\* C9 as amended: Up and Down move the cursor on both screens. With Screen =
\* Home, a collection of length n >= 1 and a valid cursor c, Down sets the
\* cursor to 0 if c = n-1 and to c+1 otherwise, Up sets it to n-1 if c = 0 and
\* to c-1 otherwise, and Screen stays Home.
C9_NavigationOnHome ==
  [][(active_menu_item = "Home" /\ CursorValid)
       => LET c == Unwrap(selected)
              n == Len(db)
          IN  /\ Received("Down")
                => /\ selected' = Some(IF c = n - 1 THEN 0 ELSE c + 1)
                   /\ active_menu_item' = "Home"
              /\ Received("Up")
                => /\ selected' = Some(IF c = 0 THEN n - 1 ELSE c - 1)
                   /\ active_menu_item' = "Home"]_vars

C9_Witness ==
  /\ event = "Down"
  /\ active_menu_item = "Home"
  /\ Len(db) = 3
  /\ selected = Some(2)

\* C10: pressing a leaves Screen and the cursor unchanged; its only effect
\* is appending one record to the persisted collection.
C10_AddKeepsScreenAndCursor ==
  [][Received("a")
       => /\ UNCHANGED <<active_menu_item, selected>>
          /\ pc' = "draw"
          /\ Len(db') = Len(db) + 1
          /\ SubSeq(db', 1, Len(db)) = db]_vars

C10_Witness ==
  /\ event = "a"
  /\ active_menu_item = "Pets"
  /\ selected = Some(1)
  /\ Len(db) = 3

\* C11: key h sets Screen to Home and key p sets Screen to Pets, each leaving
\* the cursor and the persisted collection unchanged; a key other than q, h,
\* p, a, d, Up, Down changes neither Screen, cursor nor collection.
C11_MenuKeysAndOtherKeys ==
  [][/\ Received("h") => (active_menu_item' = "Home" /\ UNCHANGED <<selected, db>>)
     /\ Received("p") => (active_menu_item' = "Pets" /\ UNCHANGED <<selected, db>>)
     /\ Received("other") => UNCHANGED <<active_menu_item, selected, db>>]_vars

C11_Witness ==
  /\ event = "p"
  /\ active_menu_item = "Pets"
  /\ selected = Some(2)
  /\ Len(db) = 3
  /\ pc = "draw"

\* C13: pressing Down or Up when the persisted collection is empty is guarded:
\* n-1 does not underflow or crash, and the cursor does not take a value that
\* is invalid for the collection once a record is added.
C13_NavigationOnEmptyIsGuarded ==
  [][((Received("Down") \/ Received("Up")) /\ db = <<>>)
       => /\ pc' = "draw"
          /\ IsSome(selected')
          /\ Unwrap(selected') < Len(db) + 1]_vars

\* C14: with an empty persisted collection the renderer does not dereference
\* the cursor: the Pets screen is drawn without failure whatever the cursor.
C14_EmptyListRenders ==
  [][(pc = "draw" /\ active_menu_item = "Pets" /\ db = <<>>) => pc' = "recv"]_vars

C20_CursorPresent == IsSome(selected)

C20_Witness ==
  /\ event = "d"
  /\ db = <<>>
  /\ pc = "draw"
  /\ IsSome(selected)

\* the loop of main ends in this step
LoopEnds == MainRunning /\ ~MainRunning'

\* C12 as stated: the main loop ends only by processing key q, after the
\* teardown steps; no other event or store-operation outcome ends it.
\* (Stated here for the ends that are not an error of terminal.draw or of a
\* teardown step, which end the loop as well.)
C12_LoopEndsOnlyByQuit ==
  [][(LoopEnds /\ pc' # "io_err") => (Received("q") /\ TornDown')]_vars

\* C12 as amended: the loop ends normally (break, Ok) only by processing key
\* q, after clear, disable_raw_mode and show_cursor all succeeded. Every other
\* end of the loop is abnormal and leaves the teardown undone or incomplete: a
\* panic of the renderer or of a handler, an error returned by terminal.draw
\* or by a teardown step, or rx.recv failing after the producer thread died.
C12_NormalEndOnlyByQuit ==
  [][LoopEnds
       => /\ pc' = "done" => (Received("q") /\ TornDown')
          /\ pc' # "done" => (pc' \in {"panicked", "io_err", "recv_err"} /\ ~TornDown')]_vars

C12_Witness ==
  /\ pc = "done"
  /\ event = "q"
  /\ TornDown

\* C15 as stated: events reach the main loop in the order they become ready:
\* a Tick whose deadline elapsed before a key-press arrived is sent (and so
\* received) before that Input, and a key-press that arrived first is sent
\* first.
C15_ReadinessOrder ==
  [][/\ (Read /\ Head(Pending) \in Keys) => Head(ready) = Head(Pending)
     /\ (TickCheck /\ last_tick_elapsed >= TickRate) => Head(ready) = "Tick"]_vars

\* C15 as amended: events reach the main loop in the order in which the
\* producer thread sent them: the channel only grows at its end and the main
\* loop receives its oldest event, the others keeping their order. (The order
\* of readiness is not kept: see C15_ReadinessOrder.)
C15_ChannelIsFifo ==
  [][chan' # chan
       => \/ /\ Len(chan') = Len(chan) + 1
             /\ \A i \in 1..Len(chan) : chan'[i] = chan[i]
          \/ /\ pc = "recv"
             /\ Len(chan') = Len(chan) - 1
             /\ event' = chan[1]
             /\ \A i \in 1..Len(chan') : chan'[i] = chan[i + 1]]_vars

C15_Witness ==
  /\ event = "Tick"
  /\ pc = "draw"
  /\ chan = <<"p", "Tick">>

\* C16: no Input event is lost or duplicated: a key-press read by the
\* producer is enqueued as exactly one Input event (another terminal event as
\* none), each iteration of the main loop consumes exactly one event, and an
\* enqueued Input event is eventually received unless the main loop stops,
\* however many Tick events are enqueued.
C16_NoInputLost ==
  /\ [][(producer = "read" /\ producer' = "tick")
          => /\ chan' = IF Head(Pending) \in Keys THEN Append(chan, Head(Pending)) ELSE chan
             /\ Len(Pending') = Len(Pending) - 1]_vars
  /\ [][(pc = "recv" /\ pc' # "recv" /\ pc' # "recv_err")
          => (Len(chan') = Len(chan) - 1 /\ event' = Head(chan))]_vars
  /\ (tracked > 0) ~> (tracked = 0 \/ ~MainRunning)

C16_Witness ==
  /\ event = "Tick"
  /\ tracked = 1
  /\ chan = <<"p", "Tick">>

\* C17: under fair scheduling a Tick event is enqueued again and again while
\* the main loop runs and the producer thread lives, whether keys are pressed
\* or not.
C17_TickInfinitelyOften ==
  \/ []<><<TickCheck /\ last_tick_elapsed >= TickRate>>_vars
  \/ <>(~MainRunning \/ producer = "panicked")

C17_Witness ==
  /\ MainRunning
  /\ chan = <<"p", "Tick">>
  /\ Pending # <<>>
  /\ event = "Tick"

\* C18: a failure of poll or read in the input producer reaches the main
\* loop and triggers a clean shutdown: the loop stops with the teardown done.
C18_ProducerFailureShutsDownCleanly ==
  pc = "recv_err" => TornDown

====
